---- MODULE Spec2Model ----
(***************************************************************************)
(* chemkit: MoleculeGeometryOptimizer (src/src/md/moleculegeometryoptimizer *)
(* .cpp).  One optimization session (the d-pointer's fields), the molecule  *)
(* it is bound to, the heap of ForceField instances it creates and deletes, *)
(* and the thread of control running its methods.                           *)
(*                                                                         *)
(* Numbers.  chemkit::Real is modelled in fixed point:                      *)
(*   positions and gradients  in units of 0.001                             *)
(*   energies                 in units of 0.000001                          *)
(*   the line-search step     as a decimal  m * 10^-e  (record [m, e])      *)
(* Products are truncated toward zero to the unit of their result, the way  *)
(* finite-precision arithmetic rounds.  The molecule is one-dimensional: a  *)
(* chain of atoms on a line, each Point3 reduced to its x coordinate.       *)
(***************************************************************************)
EXTENDS Integers, Sequences, FiniteSets, TLC

\* ------------------------------------------------------------------ bounds
\* Number of atoms of the molecule.
NumAtoms == 2
\* Random displacements that would leave [-MaxPos, MaxPos] are not drawn.
MaxPos == 2500
\* ForceField instances the heap can hand out before create() is no longer called.
MaxInstances == 2

\* ------------------------------------------------------- program constants
\* Real step = 0.05  (as m * 10^-e)
StepInitM == 5
StepInitE == 2
\* Real stepConv = 1e-5, in energy units of 1e-6
stepConv == 10
\* int stepCount = 10
stepCount == 10
\* Real converganceValue = 0.1, in gradient units of 0.001
converganceValue == 100
\* position += Vector3::Random().normalized(): one unit of length, in 0.001
WiggleLength == 1000

Atoms == 1..NumAtoms
NULL == "NULL"
MOL == "mol"

\* A Real: a fixed-point value, or not a number.
Real(x) == [nan |-> FALSE, v |-> x]
NaN == [nan |-> TRUE, v |-> 0]
isnan(r) == r.nan
\* IEEE comparisons: every comparison with a NaN is false.
Less(a, b) == ~a.nan /\ ~b.nan /\ a.v < b.v
\* The rejection test with >= for >.
GreaterOrEqual(a, b) == ~a.nan /\ ~b.nan /\ a.v >= b.v

Greater(a, b) == ~a.nan /\ ~b.nan /\ a.v > b.v

\* --------------------------------------------------------------- numerics
Abs(x) == IF x < 0 THEN -x ELSE x

Sign(x) == IF x < 0 THEN -1 ELSE IF x > 0 THEN 1 ELSE 0

\* a / b for b > 0, truncated toward zero.
TruncDiv(a, b) == IF a >= 0 THEN a \div b ELSE -((-a) \div b)

\* a / 10^e truncated toward zero, without forming 10^e.
RECURSIVE DivPow10(_, _)
DivPow10(a, e) ==
    IF e = 0 \/ a = 0 THEN a ELSE DivPow10(TruncDiv(a, 10), e - 1)

RECURSIVE Pow10(_)
Pow10(e) == IF e = 0 THEN 1 ELSE 10 * Pow10(e - 1)

RECURSIVE SumSeq(_)
SumSeq(s) == IF s = <<>> THEN 0 ELSE Head(s) + SumSeq(Tail(s))

MaxOf(S) == CHOOSE x \in S : \A y \in S : y <= x

\* Largest r in 0..hi with r * r <= n.
RECURSIVE ISqrtUpTo(_, _, _)
ISqrtUpTo(n, lo, hi) ==
    IF lo >= hi THEN lo
    ELSE LET mid == (lo + hi + 1) \div 2
         IN  IF mid * mid <= n THEN ISqrtUpTo(n, mid, hi)
             ELSE ISqrtUpTo(n, lo, mid - 1)

\* ------------------------------------------- ForceField (external oracle)
\* Names ForceField::create() knows, and the names a caller may pass.
Registered == {"uff"}
Names == {"uff", "nonexistent"}

\* Equilibrium bond length, in 0.001.
BondLength == 1000
\* Bond force constants (in 0.01) the molecule's bond may have.
BondKs == {5, 50, 100, 1500}

\* Signed extension of bond (i, i+1) beyond its equilibrium length.
Stretch(c, i) == Abs(c[i + 1] - c[i]) - BondLength

\* k/100 * d^2, in 1e-6.
BondEnergy(k, d) == (k \div 100) * d * d + ((k % 100) * d * d) \div 100

\* ForceField::energy(coords): harmonic bond stretch along the chain; not a
\* number when two bonded atoms coincide.
Energy(k, c) ==
    IF \E i \in 1..(Len(c) - 1) : c[i + 1] = c[i] THEN NaN
    ELSE Real(SumSeq([i \in 1..(Len(c) - 1) |-> BondEnergy(k, Stretch(c, i))]))

\* d/dx_a of bond (i, i+1)'s energy: 2 * k/100 * stretch * direction.
BondGradient(k, c, i, a) ==
    LET dir == IF c[i + 1] >= c[i] THEN 1 ELSE -1
        mag == TruncDiv(2 * k * Stretch(c, i), 100)
    IN  IF a = i + 1 THEN dir * mag ELSE IF a = i THEN -(dir * mag) ELSE 0

\* ForceField::gradient(coords): one component per atom.
Gradient(k, c) ==
    [a \in 1..Len(c) |->
        SumSeq([i \in 1..(Len(c) - 1) |-> BondGradient(k, c, i, a)])]

\* ForceField::rmsg(coords): root mean square of the gradient.  Above
\* RmsExact the largest component divided by the atom count is returned: a
\* lower bound of the root mean square, itself far above converganceValue.
RmsExact == 10000
Rmsg(k, c) ==
    LET g == Gradient(k, c)
        m == MaxOf({Abs(g[a]) : a \in 1..Len(c)})
    IN  IF m > RmsExact THEN m \div Len(c)
        ELSE ISqrtUpTo(SumSeq([a \in 1..Len(c) |-> g[a] * g[a]]) \div Len(c),
                       0, RmsExact)

\* ------------------------------------------------------------------ state
VARIABLES
    \* MoleculeGeometryOptimizerPrivate
    molecule,        \* Molecule *molecule: NULL or MOL
    forceField,      \* ForceField *forceField: 0 or the id of an instance
    forceFieldName,  \* std::string forceFieldName
    errorString,     \* std::string errorString, as a tuple of its parts
    coordinates,     \* CartesianCoordinates coordinates: <<>> when empty
    \* the molecule and the heap
    molPos,          \* positions of MOL's atoms
    bondK,           \* force constant of MOL's bonds (never changes)
    nextId,          \* id the next ForceField::create() returns
    deleted,         \* ids of the instances that were deleted
    memFault,        \* "none", "double_delete" or "use_after_delete"
    \* the thread running the session's methods
    pc,              \* "idle", "line_search", "check", "opt_loop",
                     \* "opt_write", "opt_return", "worker_start",
                     \* "destroyed", "crashed"
    inOptimize,      \* step() was called by optimize()
    done,            \* optimize(): bool done; also step()'s last result
    i,               \* step(): loop counter
    step,            \* step(): Real step
    initialEnergy,   \* step(): Real initialEnergy
    gradient,        \* step(): std::vector<Vector3> gradient
    written,         \* writeCoordinates(): atoms written so far
    \* what the caller saw
    lastCall,        \* the call that returned last: [op, ret, val, why]
    lastSetup,       \* the setup() that ran last: "never", "ok", "failed"
    branch,          \* the branch the last line-search iteration took
    callLog,         \* the step() calls: [entry, branches, prevStep, left]
    optEntry,        \* molecule positions when optimize() was entered,
                     \* and whether it has called step()
    \* optimizeCoordinatesAsync
    handle,          \* the shared_future: "none", "pending", "ready"
    handleValue,     \* its value once ready
    obs              \* the positions another thread read last

sessionVars == <<molecule, forceField, forceFieldName, errorString, coordinates>>
heapVars == <<nextId, deleted, memFault>>
stepVars == <<i, step, initialEnergy, gradient, branch, callLog>>
asyncVars == <<handle, handleValue, obs>>
vars == <<molecule, forceField, forceFieldName, errorString, coordinates,
          molPos, bondK, nextId, deleted, memFault, pc, inOptimize, done,
          i, step, initialEnergy, gradient, written, lastCall, lastSetup,
          branch, callLog, optEntry, handle, handleValue, obs>>

\* Geometries the molecule may have when the session is constructed: a chain
\* with equal spacing.
InitSpacings == {1100, 1300, 3500}
InitialGeometries == {[a \in Atoms |-> (a - 1) * sp] : sp \in InitSpacings}

StepInit == [m |-> StepInitM, e |-> StepInitE]
\* No call has returned yet, or one is running, or the last one died.
NoCall == [op |-> "none", ret |-> FALSE, val |-> Real(0), why |-> {}]
NoEntry == [pos |-> <<>>, stepped |-> FALSE]
\* What is remembered of the step() calls: the coordinates the running call
\* was entered with and the branches its iterations took; the step size and
\* the coordinates the call before it returned with.
NoLog == [entry |-> <<>>, branches |-> <<>>, prevStep |-> StepInit,
          left |-> <<>>]

\* MoleculeGeometryOptimizer(Molecule *molecule)
Init ==
    /\ molecule \in {NULL, MOL}
    /\ forceField = 0
    /\ forceFieldName = "uff"
    /\ errorString = <<>>
    /\ coordinates = <<>>
    /\ molPos \in InitialGeometries
    /\ bondK \in BondKs
    /\ nextId = 1
    /\ deleted = {}
    /\ memFault = "none"
    /\ pc = "idle"
    /\ inOptimize = FALSE
    /\ done = FALSE
    /\ i = 0
    /\ step = StepInit
    /\ initialEnergy = Real(0)
    /\ gradient = <<>>
    /\ written = 0
    /\ lastCall = NoCall
    /\ lastSetup = "never"
    /\ branch = "none"
    /\ callLog = NoLog
    /\ optEntry = NoEntry
    /\ handle = "none"
    /\ handleValue = FALSE
    /\ obs = molPos

\* ------------------------------------------------------------------- heap
\* delete p: nothing for a null pointer; a second delete of p is a fault.
Delete(p, del, fault) ==
    [deleted |-> IF p = 0 THEN del ELSE del \cup {p},
     memFault |-> IF p # 0 /\ p \in del THEN "double_delete" ELSE fault]

\* A call through p: a fault when p was deleted.
Use(p, del, fault) == IF p \in del THEN "use_after_delete" ELSE fault

\* chemkit::ForceField::create(name): a fresh instance, or null when the
\* name is not registered.
Create(name, next) == IF name \in Registered THEN next ELSE 0

\* ------------------------------------------------------------- properties
\* A call other than optimize() leaves nothing of an earlier optimize() run
\* on the stack.
ForgetOptimize ==
    /\ optEntry' = NoEntry
    /\ written' = 0
    /\ done' = FALSE

\* void setMolecule(Molecule *molecule)
SetMolecule(p) ==
    /\ pc = "idle"
    /\ molecule' = IF p # molecule THEN p ELSE molecule
    /\ lastCall' = [op |-> "setMolecule", ret |-> TRUE, val |-> Real(0),
                    why |-> {}]
    /\ ForgetOptimize
    /\ UNCHANGED <<forceField, forceFieldName, errorString, coordinates,
                   molPos, bondK, heapVars, pc, inOptimize, stepVars,
                   lastSetup, asyncVars>>

\* The value setForceField(name) returns.
setForceFieldResult(name) == TRUE

\* bool setForceField(const std::string &forceField)
SetForceField(name) ==
    /\ pc = "idle"
    /\ forceFieldName' = name
    /\ lastCall' = [op |-> "setForceField", ret |-> setForceFieldResult(name),
                    val |-> Real(0), why |-> {}]
    /\ ForgetOptimize
    /\ UNCHANGED <<molecule, forceField, errorString, coordinates,
                   molPos, bondK, heapVars, pc, inOptimize, stepVars,
                   lastSetup, asyncVars>>

\* Reading a coordinate set that has no entry for the force field's atoms is
\* undefined: the call may crash, or see any value.  Values it may see:
GarbageReals == {NaN, Real(0)}
GarbageGeometries == {[a \in Atoms |-> (a - 1) * 1200]}

\* What energy() may do: return val, or (crash) die in the read.
energy ==
    IF forceField = 0 THEN {[crash |-> FALSE, val |-> Real(0), why |-> {}]}
    ELSE IF Len(coordinates) # NumAtoms
    THEN {[crash |-> TRUE, val |-> NaN]}
         \cup {[crash |-> FALSE, val |-> r] : r \in GarbageReals}
    ELSE {[crash |-> FALSE, val |-> Energy(bondK, coordinates)]}

\* Real energy() const
EnergyCall ==
    /\ pc = "idle"
    /\ \E r \in energy :
        /\ pc' = IF r.crash THEN "crashed" ELSE "idle"
        /\ lastCall' = IF r.crash THEN NoCall
                       ELSE [op |-> "energy", ret |-> TRUE, val |-> r.val,
                             why |-> {}]
    /\ memFault' = IF forceField = 0 THEN memFault
                   ELSE Use(forceField, deleted, memFault)
    /\ ForgetOptimize
    /\ UNCHANGED <<sessionVars, molPos, bondK, nextId, deleted, inOptimize,
                   stepVars, lastSetup, asyncVars>>

\* ------------------------------------------------------------------ setup
\* setup() with the result of d->forceField->setup() ignored.
setupIgnoringForceFieldSetup(ffOk) ==
    IF molecule = NULL
    THEN [ret |-> FALSE, errorString |-> <<"No molecule specified">>,
          forceField |-> forceField, nextId |-> nextId, deleted |-> deleted,
          memFault |-> memFault, coordinates |-> coordinates]
    ELSE LET freed == Delete(forceField, deleted, memFault)
             made == Create(forceFieldName, nextId)
         IN  IF made = 0
             THEN [ret |-> FALSE,
                   errorString |-> <<"Force field '", forceFieldName,
                                     "' is not supported.">>,
                   forceField |-> 0, nextId |-> nextId,
                   deleted |-> freed.deleted, memFault |-> freed.memFault,
                   coordinates |-> coordinates]
             ELSE [ret |-> TRUE, errorString |-> errorString,
                   forceField |-> made, nextId |-> nextId + 1,
                   deleted |-> freed.deleted, memFault |-> freed.memFault,
                   coordinates |-> molPos]

\* A setup() that copies the molecule's positions only while the session has
\* none: if(d->coordinates.isEmpty()) d->coordinates = ...
setupKeepingCoordinates(ffOk) ==
    IF molecule = NULL
    THEN [ret |-> FALSE, errorString |-> <<"No molecule specified">>,
          forceField |-> forceField, nextId |-> nextId, deleted |-> deleted,
          memFault |-> memFault, coordinates |-> coordinates]
    ELSE LET freed == Delete(forceField, deleted, memFault)
             made == Create(forceFieldName, nextId)
         IN  IF made = 0
             THEN [ret |-> FALSE,
                   errorString |-> <<"Force field '", forceFieldName,
                                     "' is not supported.">>,
                   forceField |-> 0, nextId |-> nextId,
                   deleted |-> freed.deleted, memFault |-> freed.memFault,
                   coordinates |-> coordinates]
             ELSE IF ~ffOk
             THEN [ret |-> FALSE,
                   errorString |-> <<"Failed to setup force field.">>,
                   forceField |-> made, nextId |-> nextId + 1,
                   deleted |-> freed.deleted, memFault |-> freed.memFault,
                   coordinates |-> coordinates]
             ELSE [ret |-> TRUE, errorString |-> errorString,
                   forceField |-> made, nextId |-> nextId + 1,
                   deleted |-> freed.deleted, memFault |-> freed.memFault,
                   coordinates |-> IF coordinates = <<>> THEN molPos
                                   ELSE coordinates]

\* bool setup(): the session's fields and the heap after the call, and the
\* value returned.  ffOk: whether the created force field's own setup()
\* succeeds for the molecule.
setup(ffOk) ==
    IF molecule = NULL
    THEN [ret |-> FALSE, errorString |-> <<"No molecule specified">>,
          forceField |-> forceField, nextId |-> nextId, deleted |-> deleted,
          memFault |-> memFault, coordinates |-> coordinates]
    ELSE LET freed == Delete(forceField, deleted, memFault)
             made == Create(forceFieldName, nextId)
         IN  IF made = 0
             THEN [ret |-> FALSE,
                   errorString |-> <<"Force field '", forceFieldName,
                                     "' is not supported.">>,
                   forceField |-> 0, nextId |-> nextId,
                   deleted |-> freed.deleted, memFault |-> freed.memFault,
                   coordinates |-> coordinates]
             ELSE IF ~ffOk
             THEN [ret |-> FALSE,
                   errorString |-> <<"Failed to setup force field.">>,
                   forceField |-> made, nextId |-> nextId + 1,
                   deleted |-> freed.deleted, memFault |-> freed.memFault,
                   coordinates |-> coordinates]
             ELSE [ret |-> TRUE, errorString |-> errorString,
                   forceField |-> made, nextId |-> nextId + 1,
                   deleted |-> freed.deleted, memFault |-> freed.memFault,
                   coordinates |-> molPos]

\* setup() would create an instance the bounded heap cannot hand out.
HeapExhausted ==
    molecule # NULL /\ forceFieldName \in Registered /\ nextId > MaxInstances

\* What a setup() was called with: the failure causes that were present.
SetupWhy(ffOk) ==
    {w \in {"noMolecule"} : molecule = NULL}
    \cup {w \in {"unregistered"} : forceFieldName \notin Registered}
    \cup {w \in {"ffSetupFailed"} : ~ffOk}

SetupEffect(r, ffOk) ==
    /\ forceField' = r.forceField
    /\ errorString' = r.errorString
    /\ coordinates' = r.coordinates
    /\ nextId' = r.nextId
    /\ deleted' = r.deleted
    /\ memFault' = r.memFault
    /\ lastSetup' = IF r.ret THEN "ok" ELSE "failed"

Setup(ffOk) ==
    /\ pc = "idle"
    /\ ~HeapExhausted
    /\ LET r == setup(ffOk)
       IN  /\ SetupEffect(r, ffOk)
           /\ lastCall' = [op |-> "setup", ret |-> r.ret, val |-> Real(0),
                           why |-> SetupWhy(ffOk)]
    /\ ForgetOptimize
    /\ UNCHANGED <<molecule, forceFieldName, molPos, bondK, pc, inOptimize,
                   stepVars, asyncVars>>

\* ------------------------------------------------------------------- step
\* step *= 2; if(step > 1) step = 1;   (m < 10^10 always)
StepGreaterThanOne(st) == st.e <= 9 /\ st.m > Pow10(st.e)

\* step *= 2; without the clamp.
StepDoubledUnclamped(st) == [m |-> 2 * st.m, e |-> st.e]

StepDoubled(st) ==
    LET twice == [m |-> 2 * st.m, e |-> st.e]
    IN  IF StepGreaterThanOne(twice) THEN [m |-> 1, e |-> 0] ELSE twice

\* step *= 0.1
StepShrunk(st) == [m |-> st.m, e |-> st.e + 1]

\* d->coordinates[atomIndex] += -gradient[atomIndex] * step, for every atom
\* of the force field.
Moved(c, g, st) ==
    [a \in 1..NumAtoms |-> c[a] + DivPow10((-g[a]) * st.m, st.e)]

\* A reset to the snapshot with no perturbation.
WiggleOfNothing(x) == {x}

\* position + Vector3::Random().normalized() for every atom: the sets of
\* positions the wiggle may produce from the snapshot c0.
WiggleOf(x) ==
    LET both == {x + WiggleLength, x - WiggleLength}
        kept == {y \in both : Abs(y) <= MaxPos}
    IN  IF kept = {} THEN {x - Sign(x) * WiggleLength} ELSE kept

Wiggles(c0) ==
    {w \in [1..NumAtoms -> UNION {WiggleOf(c0[a]) : a \in 1..NumAtoms}] :
        \A a \in 1..NumAtoms : w[a] \in WiggleOf(c0[a])}

\* A rejection that keeps the move: the restore left out.
RestoredNot(initialCoordinates, moved) == moved

\* d->coordinates = initialCoordinates;
Restored(initialCoordinates, moved) == initialCoordinates

\* An improvement that leaves initialEnergy as it was.
NextInitialEnergyStale(e0, finalEnergy) == e0

\* initialEnergy = finalEnergy;
NextInitialEnergy(e0, finalEnergy) == finalEnergy

\* One iteration of step()'s for loop, from the session's coordinates c, the
\* gradient g, the step size st and initialEnergy e0; w is what the wiggle
\* draws.  brk: the loop was left by break.
LineSearchIteration(c, g, st, e0, w) ==
    LET initialCoordinates == c
        moved == Moved(c, g, st)
        finalEnergy == Energy(bondK, moved)
    IN  IF isnan(finalEnergy)
        THEN [coordinates |-> w, gradient |-> Gradient(bondK, w),
              step |-> st, initialEnergy |-> e0, brk |-> FALSE,
              branch |-> "nan"]
        ELSE IF Less(finalEnergy, e0) /\ Abs(finalEnergy.v - e0.v) < stepConv
        THEN [coordinates |-> moved, gradient |-> g, step |-> st,
              initialEnergy |-> e0, brk |-> TRUE, branch |-> "converged"]
        ELSE IF Less(finalEnergy, e0)
        THEN [coordinates |-> moved, gradient |-> g, step |-> StepDoubled(st),
              initialEnergy |-> NextInitialEnergy(e0, finalEnergy),
              brk |-> FALSE,
              branch |-> "improved"]
        ELSE IF Greater(finalEnergy, e0)
        THEN [coordinates |-> Restored(initialCoordinates, moved),
              gradient |-> g,
              step |-> StepShrunk(st), initialEnergy |-> e0, brk |-> FALSE,
              branch |-> "rejected"]
        ELSE [coordinates |-> moved, gradient |-> g, step |-> st,
              initialEnergy |-> e0, brk |-> FALSE, branch |-> "kept"]

\* The wiggles an iteration may draw: one (unused) when the move is finite.
Draws(c, g, st) ==
    IF isnan(Energy(bondK, Moved(c, g, st))) THEN Wiggles(c) ELSE {c}

\* step()'s guard: if(!d->molecule || !d->forceField) return false;
StepRefused == molecule = NULL \/ forceField = 0

\* What step() may start from: the session's coordinates, or, when they have
\* no entry for the force field's atoms, a crash or any values.
StepStarts ==
    IF Len(coordinates) = NumAtoms
    THEN {[crash |-> FALSE, c |-> coordinates]}
    ELSE {[crash |-> TRUE, c |-> coordinates]}
         \cup {[crash |-> FALSE, c |-> c0] : c0 \in GarbageGeometries}

\* The step size of a static local: what the call before left in it.
StepStartSizeCarried == callLog.prevStep

\* Real step = 0.05; a local of step(), initialised at every call.
StepStartSize == StepInit

\* step() up to the for loop, called by `op` ("step" or "optimize").
StepEnter(op) ==
    IF StepRefused
    THEN /\ pc' = IF op = "optimize" THEN "opt_loop" ELSE "idle"
         /\ lastCall' = IF op = "optimize" THEN lastCall
                        ELSE [op |-> "step", ret |-> FALSE, val |-> Real(0),
                              why |-> {}]
         /\ UNCHANGED <<coordinates, memFault, stepVars>>
    ELSE \E s0 \in StepStarts :
         /\ pc' = IF s0.crash THEN "crashed" ELSE "line_search"
         /\ coordinates' = s0.c
         /\ initialEnergy' = IF s0.crash THEN initialEnergy
                             ELSE Energy(bondK, s0.c)
         /\ gradient' = IF s0.crash THEN gradient ELSE Gradient(bondK, s0.c)
         /\ i' = 0
         /\ step' = StepStartSize
         /\ branch' = "none"
         /\ callLog' = [entry |-> s0.c, branches |-> <<>>,
                        prevStep |-> callLog.prevStep, left |-> <<>>]
         /\ memFault' = Use(forceField, deleted, memFault)
         /\ lastCall' = NoCall

\* bool step(), called by the session's user.
StepCall ==
    /\ pc = "idle"
    /\ StepEnter("step")
    /\ inOptimize' = FALSE
    /\ ForgetOptimize
    /\ UNCHANGED <<molecule, forceField, forceFieldName, errorString, molPos,
                   bondK, nextId, deleted, lastSetup, asyncVars>>

\* An iteration that moves the molecule's own atoms.
StepMoleculeLive == IF pc = "line_search" THEN coordinates' ELSE molPos

\* The molecule's positions after an iteration: the moves, the restore and
\* the wiggle are all applied to d->coordinates, never to the atoms.
StepMolecule == molPos

\* One iteration of the line search.
LineSearch ==
    /\ pc = "line_search"
    /\ \E w \in Draws(coordinates, gradient, step) :
        LET r == LineSearchIteration(coordinates, gradient, step,
                                     initialEnergy, w)
        IN  /\ coordinates' = r.coordinates
            /\ gradient' = r.gradient
            /\ step' = r.step
            /\ initialEnergy' = r.initialEnergy
            /\ branch' = r.branch
            /\ callLog' = [callLog EXCEPT
                              !.branches = Append(@, r.branch)]
            /\ i' = i + 1
            /\ pc' = IF r.brk \/ i + 1 >= stepCount THEN "check"
                     ELSE "line_search"
    /\ molPos' = StepMolecule
    /\ UNCHANGED <<molecule, forceField, forceFieldName, errorString, bondK,
                   heapVars, inOptimize, done, written, lastCall, lastSetup,
                   optEntry, asyncVars>>

\* step()'s result with the threshold ten times too large.
stepResultLoose == Rmsg(bondK, coordinates) < 10 * converganceValue

\* return d->forceField->rmsg(&d->coordinates) < converganceValue;
stepResult == Rmsg(bondK, coordinates) < converganceValue

\* step() returns, to its user or to optimize().
StepReturn ==
    /\ pc = "check"
    /\ done' = (inOptimize /\ stepResult)
    /\ pc' = IF inOptimize THEN "opt_loop" ELSE "idle"
    /\ lastCall' = IF inOptimize THEN lastCall
                   ELSE [op |-> "step", ret |-> stepResult, val |-> Real(0),
                         why |-> {}]
    /\ i' = 0
    /\ step' = StepInit
    /\ initialEnergy' = Real(0)
    /\ gradient' = <<>>
    /\ branch' = "none"
    /\ callLog' = [entry |-> <<>>, branches |-> <<>>, prevStep |-> step,
                   left |-> coordinates]
    /\ UNCHANGED <<sessionVars, molPos, bondK, heapVars, inOptimize, written,
                   lastSetup, optEntry, asyncVars>>

\* --------------------------------------------------------------- optimize
\* optimize() after its setup(): if(!setup()) return false; else the loop.
AfterSetup(ok) == IF ok THEN "opt_loop" ELSE "idle"

\* bool optimize(), up to its loop.
OptimizeEnter(ffOk) ==
    /\ ~HeapExhausted
    /\ LET r == setup(ffOk)
       IN  /\ SetupEffect(r, ffOk)
           /\ pc' = AfterSetup(r.ret)
           /\ inOptimize' = (AfterSetup(r.ret) # "idle")
           /\ lastCall' = IF AfterSetup(r.ret) = "idle"
                          THEN [op |-> "optimize", ret |-> FALSE,
                                val |-> Real(0), why |-> {}]
                          ELSE NoCall
    /\ done' = FALSE
    /\ written' = 0
    /\ optEntry' = [pos |-> molPos, stepped |-> FALSE]
    /\ UNCHANGED <<molecule, forceFieldName, molPos, bondK, stepVars>>

OptimizeCall(ffOk) ==
    /\ pc = "idle"
    /\ OptimizeEnter(ffOk)
    /\ UNCHANGED asyncVars

\* A loop that runs step() once: if(!done){ done = step(); }
LoopExitAfterOneStep(d) == d \/ optEntry.stepped

\* while(!done){ done = step(); }: the loop is left when done.
LoopExit(d) == d

\* The guard inverted: if(d->molecule && d->forceField) return;
WriteRefusedWhenBound == ~(molecule = NULL \/ forceField = 0)

\* writeCoordinates()'s guard: if(!d->molecule || !d->forceField) return;
WriteRefused == molecule = NULL \/ forceField = 0

\* The loop's test: another step(), or on to writeCoordinates().
OptLoop ==
    /\ pc = "opt_loop"
    /\ IF LoopExit(done)
       THEN /\ pc' = IF WriteRefused \/ NumAtoms = 0 THEN "opt_return"
                     ELSE "opt_write"
            /\ written' = 0
            /\ UNCHANGED <<coordinates, memFault, done, lastCall, stepVars,
                           optEntry>>
       ELSE /\ StepEnter("optimize")
            /\ optEntry' = [optEntry EXCEPT !.stepped = TRUE]
            /\ UNCHANGED <<written, done>>
    /\ UNCHANGED <<molecule, forceField, forceFieldName, errorString, molPos,
                   bondK, nextId, deleted, inOptimize, lastSetup, asyncVars>>

\* Every atom given the first atom's position.
WrittenPositionOfFirst(a) == coordinates[1]

\* d->molecule->atom(i)->setPosition(d->coordinates.position(i))
WrittenPosition(a) == coordinates[a]

\* One pass of writeCoordinates()'s loop over the molecule's atoms.
WriteAtom ==
    /\ pc = "opt_write"
    /\ molPos' = [molPos EXCEPT ![written + 1] = WrittenPosition(written + 1)]
    /\ written' = written + 1
    /\ pc' = IF written + 1 >= NumAtoms THEN "opt_return" ELSE "opt_write"
    /\ UNCHANGED <<sessionVars, bondK, heapVars, inOptimize, done, stepVars,
                   lastCall, lastSetup, optEntry, asyncVars>>

\* return done;
OptReturn ==
    /\ pc = "opt_return"
    /\ pc' = "idle"
    /\ inOptimize' = FALSE
    /\ lastCall' = [op |-> "optimize", ret |-> done, val |-> Real(0),
                    why |-> {}]
    /\ UNCHANGED <<sessionVars, molPos, bondK, heapVars, done, stepVars,
                   written, lastSetup, optEntry, asyncVars>>

\* A destructor that forgets the force field: delete d;
DestructorLeaking == [deleted |-> deleted, memFault |-> memFault]

\* ~MoleculeGeometryOptimizer(): delete d->forceField; delete d;
Destructor == Delete(forceField, deleted, memFault)

Destroy ==
    /\ pc = "idle"
    /\ pc' = "destroyed"
    /\ deleted' = Destructor.deleted
    /\ memFault' = Destructor.memFault
    /\ lastCall' = [op |-> "destroy", ret |-> TRUE, val |-> Real(0),
                    why |-> {}]
    /\ ForgetOptimize
    /\ UNCHANGED <<sessionVars, molPos, bondK, nextId, inOptimize, stepVars,
                   lastSetup, asyncVars>>

Next ==
    \/ \E p \in {NULL, MOL} : SetMolecule(p)
    \/ \E name \in Names : SetForceField(name)
    \/ EnergyCall
    \/ \E ffOk \in BOOLEAN : Setup(ffOk)
    \/ StepCall
    \/ LineSearch
    \/ StepReturn
    \/ \E ffOk \in BOOLEAN : OptimizeCall(ffOk)
    \/ OptLoop
    \/ WriteAtom
    \/ OptReturn
    \/ Destroy

Spec == Init /\ [][Next]_vars

\* ----------------------------------------------- optimizeCoordinatesAsync
\* chemkit::concurrent::run(bind(&optimizeCoordinates, molecule)): the
\* caller gets a pending future; a worker constructs the transient session
\* MoleculeGeometryOptimizer(molecule).
AsyncStart(p) ==
    /\ handle = "none"
    /\ pc = "idle"
    /\ handle' = "pending"
    /\ molecule' = p
    /\ pc' = "worker_start"
    /\ UNCHANGED <<forceField, forceFieldName, errorString, coordinates,
                   molPos, bondK, heapVars, inOptimize, done, stepVars,
                   written, lastCall, lastSetup, optEntry, handleValue, obs>>

\* The worker: MoleculeGeometryOptimizer(molecule).optimize()
WorkerOptimize(ffOk) ==
    /\ pc = "worker_start"
    /\ OptimizeEnter(ffOk)
    /\ UNCHANGED asyncVars

\* optimizeCoordinates() returns: the transient session is destroyed, and the
\* future becomes ready with optimize()'s value.
WorkerReturn ==
    /\ handle = "pending"
    /\ pc = "idle"
    /\ lastCall.op = "optimize"
    /\ pc' = "destroyed"
    /\ deleted' = Destructor.deleted
    /\ memFault' = Destructor.memFault
    /\ handle' = "ready"
    /\ handleValue' = lastCall.ret
    /\ UNCHANGED <<sessionVars, molPos, bondK, nextId, inOptimize, done,
                   stepVars, written, lastCall, lastSetup, optEntry, obs>>

\* Another thread reads the molecule's positions, all at one instant.
Observe ==
    /\ handle # "none"
    /\ obs' = molPos
    /\ UNCHANGED <<sessionVars, molPos, bondK, heapVars, pc, inOptimize, done,
                   stepVars, written, lastCall, lastSetup, optEntry, handle,
                   handleValue>>

AsyncNext ==
    \/ \E p \in {NULL, MOL} : AsyncStart(p)
    \/ \E ffOk \in BOOLEAN : WorkerOptimize(ffOk)
    \/ LineSearch
    \/ StepReturn
    \/ OptLoop
    \/ WriteAtom
    \/ OptReturn
    \/ WorkerReturn
    \/ Observe

AsyncSpec == Init /\ [][AsyncNext]_vars

\* ================================================================= claims

\* C1: setup() returns false, with a non-empty errorString(), in each of the
\* three failure cases (no molecule bound, force-field name not registered,
\* the force field's own setup() failed), and true only when none occurs.
C1_SetupFailureCases ==
    lastCall.op = "setup" =>
        /\ lastCall.ret = (lastCall.why = {})
        /\ ~lastCall.ret => errorString # <<>>

C1_Witness ==
    /\ lastCall.op = "setup"
    /\ ~lastCall.ret
    /\ lastCall.why = {"ffSetupFailed"}
    /\ errorString = <<"Failed to setup force field.">>

\* C2: when optimize() has returned true, its last step() reported
\* rmsg(session coordinates) < 0.1, and every atom of the molecule is at the
\* position the session's coordinates hold for it.
C2_OptimizeTrueIsConverged ==
    (lastCall.op = "optimize" /\ lastCall.ret) =>
        /\ done
        /\ Rmsg(bondK, coordinates) < converganceValue
        /\ \A a \in Atoms : molPos[a] = coordinates[a]

C2_Witness ==
    /\ lastCall.op = "optimize"
    /\ lastCall.ret
    /\ molPos # optEntry.pos
    /\ handle = "none"

\* C3: the molecule's positions change only in optimize()'s write-back, after
\* a step() has reported convergence: never in setup(), step(), energy(),
\* setMolecule(), setForceField(), nor in a tentative move, a rejection or a
\* divergence wiggle.
C3_MoleculeWrittenOnlyByWriteBack ==
    [][molPos' # molPos => (pc = "opt_write" /\ inOptimize /\ done)]_vars

C3_Witness ==
    /\ pc = "line_search"
    /\ ~inOptimize
    /\ branch \in {"improved", "nan"}
    /\ coordinates # molPos

\* C4: optimize() returns false exactly when its setup() failed, and then it
\* has called no step() and written nothing; once its setup() succeeded it
\* goes on calling step() and returns (true) only after one reported
\* convergence.
C4_OptimizeFailsOnlyOnSetup ==
    /\ lastCall.op = "optimize" =>
        /\ lastCall.ret = (lastSetup = "ok")
        /\ ~lastCall.ret =>
            (~optEntry.stepped /\ written = 0 /\ molPos = optEntry.pos)
        /\ lastCall.ret => (optEntry.stepped /\ done)
    /\ pc \in {"opt_write", "opt_return"} =>
        (done /\ optEntry.stepped /\ lastSetup = "ok")
    /\ pc = "opt_loop" => lastSetup = "ok"

C4_Witness ==
    /\ lastCall.op = "optimize"
    /\ ~lastCall.ret
    /\ lastSetup = "failed"
    /\ errorString = <<"No molecule specified">>

\* C5: energy() returns zero whenever setup() has never been called or the
\* most recent setup() returned false, whatever the cause of the failure.
C5_EnergyZeroUnlessSetupOk ==
    (lastCall.op = "energy" /\ lastSetup # "ok") => lastCall.val = Real(0)

\* C6: unless the most recent setup() succeeded, step() returns false
\* without evaluating the force field's energy, gradient or rmsg and without
\* changing the session's coordinates.
C6_StepRefusedUnlessSetupOk ==
    lastSetup # "ok" =>
        /\ ~(pc \in {"line_search", "check"} /\ ~inOptimize)
        /\ lastCall.op = "step" => ~lastCall.ret

\* C7: setForceField(name) returns false if the named force field is not
\* registered, and true otherwise.
C7_SetForceFieldRejectsUnknown ==
    lastCall.op = "setForceField" =>
        (lastCall.ret = (forceFieldName \in Registered))

\* The molecule's positions before the run that is under way.
PreOpt == IF optEntry.pos = <<>> THEN molPos ELSE optEntry.pos

\* C8: the worker's write-back happens before the handle returned by
\* optimizeCoordinatesAsync() becomes ready: once it is ready the run writes
\* the molecule no more, and if its value is true the molecule holds the
\* converged coordinates.
C8_WriteBackBeforeReady ==
    /\ [](handle = "ready" =>
            /\ pc = "destroyed"
            /\ handleValue =>
                /\ written = NumAtoms
                /\ Rmsg(bondK, coordinates) < converganceValue
                /\ \A a \in Atoms : molPos[a] = coordinates[a]
            /\ ~handleValue => (written = 0 /\ molPos = PreOpt))
    /\ [][handle = "ready" => molPos' = molPos]_vars

C8_Witness ==
    /\ handle = "ready"
    /\ handleValue
    /\ molPos # optEntry.pos

Live == (1..(nextId - 1)) \ deleted

\* C10: the session owns at most one live ForceField instance at any time;
\* setup() destroys the instance it owned before creating a new one; no
\* destroyed instance is used or deleted again; and when the session is
\* destroyed every instance it created has been destroyed.
C10_OneLiveForceField ==
    /\ memFault = "none"
    /\ Live \subseteq {forceField}
    /\ pc # "destroyed" => (forceField = 0 \/ forceField \in Live)
    /\ pc = "destroyed" => Live = {}

C10_Witness ==
    /\ pc = "destroyed"
    /\ handle = "none"
    /\ Cardinality(deleted) >= 2

\* The energy of the tentative move the next iteration makes.
finalEnergy == Energy(bondK, Moved(coordinates, gradient, step))

\* A step of the model that is one iteration of step()'s line search.
Iterates == pc = "line_search" /\ i' = i + 1

\* C11: whenever a tentative move yields a finalEnergy that is a number and
\* strictly greater than initialEnergy, the session coordinates are restored
\* exactly to the snapshot taken at the start of the iteration, the step
\* size is multiplied by 0.1, and initialEnergy and the gradient are left
\* unchanged for the next iteration.
C11_RejectionRestoresSnapshot ==
    [][(/\ Iterates
        /\ ~isnan(finalEnergy)
        /\ ~isnan(initialEnergy)
        /\ finalEnergy.v > initialEnergy.v)
       => /\ coordinates' = coordinates
          /\ step'.m = step.m
          /\ step'.e = step.e + 1
          /\ initialEnergy' = initialEnergy
          /\ gradient' = gradient]_vars

C11_Witness ==
    /\ pc = "line_search"
    /\ callLog.branches = <<"rejected">>
    /\ coordinates = callLog.entry
    /\ Moved(coordinates, gradient, StepInit) # coordinates
    /\ step = [m |-> StepInitM, e |-> StepInitE + 1]

\* C12: whenever a tentative move yields a NaN finalEnergy, every atom is
\* set to its snapshot position plus a perturbation of unit length, the
\* gradient is re-evaluated at the perturbed coordinates, the step size and
\* initialEnergy are left unchanged, the loop goes on with its next
\* iteration, and no error is surfaced: errorString is not modified and the
\* call neither returns nor fails because of the divergence.
C12_DivergencePerturbsSnapshot ==
    [][(Iterates /\ isnan(finalEnergy))
       => /\ \A a \in Atoms :
                Abs(coordinates'[a] - coordinates[a]) = WiggleLength
          /\ gradient' = Gradient(bondK, coordinates')
          /\ step' = step
          /\ initialEnergy' = initialEnergy
          /\ pc' = IF i + 1 < stepCount THEN "line_search" ELSE "check"
          /\ errorString' = errorString
          /\ lastCall' = lastCall
          /\ memFault' = memFault]_vars

C12_Witness ==
    /\ pc = "line_search"
    /\ branch = "nan"
    /\ callLog.branches[Len(callLog.branches)] = "nan"
    /\ coordinates # callLog.entry
    /\ ~isnan(Energy(bondK, coordinates))
    /\ gradient = Gradient(bondK, coordinates)
    /\ gradient # Gradient(bondK, callLog.entry)

\* The call's iterations so far were all improvements.
OnlyImprovements ==
    \A n \in 1..Len(callLog.branches) : callLog.branches[n] = "improved"

\* min(0.05 * 2^k, 1), in hundredths.
GrownStep(k) == IF StepInitM * 2^k > 100 THEN 100 ELSE StepInitM * 2^k

\* C13: within one step() call each improvement (finalEnergy below
\* initialEnergy by no less than the 1e-5 tolerance) doubles the step size,
\* up to 1, and carries finalEnergy forward as the new initialEnergy without
\* recomputing the gradient; after k improvements in a row from the start of
\* the call the step size is min(0.05 * 2^k, 1); and the step size of every
\* iteration is greater than 0 and at most 1.
C13_StepSizeAdaptation ==
    /\ [][(/\ Iterates
           /\ ~isnan(finalEnergy)
           /\ ~isnan(initialEnergy)
           /\ finalEnergy.v < initialEnergy.v
           /\ initialEnergy.v - finalEnergy.v >= stepConv)
          => /\ IF step.e <= 9 /\ 2 * step.m > Pow10(step.e)
                THEN step'.m = Pow10(step'.e)
                ELSE step'.m = 2 * step.m /\ step'.e = step.e
             /\ initialEnergy' = finalEnergy
             /\ gradient' = gradient]_vars
    /\ [](pc = "line_search" =>
            /\ OnlyImprovements =>
                /\ step.e <= StepInitE
                /\ step.m * Pow10(StepInitE - step.e) =
                       GrownStep(Len(callLog.branches))
            /\ step.m > 0
            /\ step.e <= 9 => step.m <= Pow10(step.e))

C13_Witness ==
    /\ pc = "line_search"
    /\ Len(callLog.branches) >= 6
    /\ OnlyImprovements
    /\ step = [m |-> 1, e |-> 0]
    /\ gradient = Gradient(bondK, callLog.entry)
    /\ gradient # Gradient(bondK, coordinates)

\* C14: the step size is not persisted between step() calls: the first
\* tentative move of every call uses step size 0.05, however the step size
\* was grown or shrunk in earlier calls, and a call makes at most 10
\* tentative moves.
C14_StepSizeNotPersisted ==
    /\ (pc = "line_search" /\ i = 0) => (step.m = 5 /\ step.e = 2)
    /\ pc = "line_search" => i < 10
    /\ pc \in {"line_search", "check"} =>
        (Len(callLog.branches) = i /\ i <= 10)

C14_Witness ==
    /\ pc = "line_search"
    /\ i = 0
    /\ callLog.prevStep # StepInit
    /\ step = StepInit

\* No energy evaluation of the running call returned NaN so far.
NoNaNSoFar ==
    /\ ~isnan(Energy(bondK, callLog.entry))
    /\ \A n \in 1..Len(callLog.branches) : callLog.branches[n] # "nan"

\* C15: if no energy evaluation during a step() call returns NaN, then at
\* the start of every iteration initialEnergy equals the energy of the
\* session's coordinates, and the energy of the coordinates when step()
\* returns is at most their energy when it was entered.
C15_StepNeverRaisesEnergy ==
    /\ (pc = "line_search" /\ NoNaNSoFar) =>
        initialEnergy = Energy(bondK, coordinates)
    /\ (pc = "check" /\ NoNaNSoFar) =>
        /\ ~isnan(Energy(bondK, coordinates))
        /\ Energy(bondK, coordinates).v <= Energy(bondK, callLog.entry).v

C15_Witness ==
    /\ pc = "check"
    /\ NoNaNSoFar
    /\ i = stepCount
    /\ \E n \in 1..Len(callLog.branches) : callLog.branches[n] = "rejected"
    /\ \E n \in 1..Len(callLog.branches) : callLog.branches[n] = "improved"
    /\ Energy(bondK, coordinates).v < Energy(bondK, callLog.entry).v

\* A step of the model in which setup() runs: called by the session's user,
\* or by optimize().
SetupRuns ==
    /\ pc = "idle"
    /\ \/ lastCall'.op = "setup"
       \/ pc' = "opt_loop"
       \/ lastCall'.op = "optimize" /\ pc' = "idle"

\* C16: every successful setup() overwrites the session's working
\* coordinates with the molecule's current positions, discarding what
\* earlier step() calls reached and did not write back; optimize(), which
\* calls setup() first, starts from the molecule's positions; a failed
\* setup() leaves the working coordinates unchanged.
C16_SetupOverwritesCoordinates ==
    /\ [][SetupRuns =>
            IF lastSetup' = "ok" THEN coordinates' = molPos
            ELSE coordinates' = coordinates]_vars
    /\ []((pc = "opt_loop" /\ ~optEntry.stepped) =>
            (coordinates = molPos /\ coordinates = optEntry.pos))

C16_Witness ==
    /\ lastCall.op = "setup"
    /\ lastCall.ret
    /\ callLog.left # <<>>
    /\ callLog.left # coordinates
    /\ coordinates = molPos

\* C17: when a tentative move yields a finalEnergy exactly equal to
\* initialEnergy (not NaN), no branch fires: the moved coordinates are kept,
\* not restored to the snapshot, and the step size, initialEnergy and the
\* gradient are unchanged for the next iteration.
C17_EqualEnergyKeepsMove ==
    [][(/\ Iterates
        /\ ~isnan(finalEnergy)
        /\ ~isnan(initialEnergy)
        /\ finalEnergy.v = initialEnergy.v)
       => /\ coordinates' = Moved(coordinates, gradient, step)
          /\ step' = step
          /\ initialEnergy' = initialEnergy
          /\ gradient' = gradient
          /\ pc' = IF i + 1 < stepCount THEN "line_search" ELSE "check"]_vars

C17_Witness ==
    /\ pc = "line_search"
    /\ branch = "kept"
    /\ initialEnergy = Energy(bondK, coordinates)
    /\ Moved(coordinates, gradient, step) # coordinates

====
